---- MODULE Spec2Model ----
(***************************************************************************)
(* Model of service/scrape_supercross.py: the entity discoverers           *)
(* (discover_events, discover_sessions) and the two-tier results parser    *)
(* (parse_race_results_table_first, parse_race_results_text_fallback).     *)
(*                                                                         *)
(* Strings that the code inspects character by character (table cells,     *)
(* text tokens) are sequences of one-character strings.  URLs are records  *)
(* <<host, path, query>>, and a query value is a record                    *)
(* [core, case, pad]: its letters, their case, and whether it is           *)
(* surrounded by whitespace, so that strip(), lower() and the substring    *)
(* test of the code are computed, not assumed.                             *)
(***************************************************************************)
EXTENDS Integers, Sequences, FiniteSets, TLC

VARIABLES input, pc, ret

vars == <<input, pc, ret>>

\* ---------------------------------------------------------------- bounds
MaxAnchors == 3

MaxTables == 3

MaxRows == 2

MaxLines == 5

\* ------------------------------------------------------------ generic
RECURSIVE SeqsUpTo(_, _)
SeqsUpTo(S, n) ==
  IF n = 0 THEN {<<>>}
  ELSE LET shorter == SeqsUpTo(S, n - 1)
       IN  shorter \cup {Append(s, x) : s \in {t \in shorter : Len(t) = n - 1}, x \in S}

\* ------------------------------------------------------------ URLs
BASE == "results.supercrosslive.com"

Url(path, query) == [host |-> BASE, path |-> path, query |-> query]

BASE_SLASH == Url(<<>>, <<>>)

EVENTS_URL == Url(<<"events">>, <<>>)

RESULTS_ROOT == Url(<<"results">>, <<>>)

Word(core, case, pad) == [core |-> core, case |-> case, pad |-> pad]

Plain(core) == Word(core, "lower", FALSE)

Pair(k, v) == [k |-> k, v |-> v]

\* str.strip() and str.lower() on a query value
Strip(w) == [w EXCEPT !.pad = FALSE]

Lower(w) == [w EXCEPT !.case = "lower"]

\* the literal substring "view_race_result" occurs in the written form of w
WordHasVRR(w) == w.core = "view_race_result" /\ w.case = "lower"

\* `"view_race_result" in href` over the whole resolved URL text
HasVRRSubstring(u) ==
  \/ \E i \in 1..Len(u.path) : u.path[i] = "view_race_result"
  \/ \E i \in 1..Len(u.query) :
        u.query[i].k = "view_race_result" \/ WordHasVRR(u.query[i].v)

\* urlparse() raises ValueError on an unbalanced "[" or "]" in the netloc
UrlRaises(h) == h.form = "bad"

\* urljoin(base, href) for the shapes of href the pages use
urljoin(base, h) ==
  CASE h.form = "abs"     -> Url(h.path, h.query)
    [] h.form = "rootrel" -> Url(h.path, h.query)
    [] h.form = "rel"     -> Url(base.path \o h.path, h.query)
    [] h.form = "query"   -> Url(base.path, h.query)

\* parse_qs(urlparse(u).query).get(key, [default])[0]; blank values are
\* dropped by parse_qs (keep_blank_values is False)
IsBlank(w) == w.core = "" /\ ~w.pad

QueryGet(u, key, default) ==
  LET hits == {i \in 1..Len(u.query) : u.query[i].k = key /\ ~IsBlank(u.query[i].v)}
  IN  IF hits = {} THEN default
      ELSE u.query[CHOOSE i \in hits : \A j \in hits : i <= j].v

NoValue == Word("", "lower", FALSE)

extract_query_param(url, key) ==
  IF UrlRaises(url) THEN NoValue ELSE QueryGet(url, key, NoValue)

\* ------------------------------------------------------------ anchors
Href(form, path, query) == [form |-> form, path |-> path, query |-> query]

Anchor(href, text) == [href |-> href, text |-> text]

VRR == Plain("view_race_result")

VE == Plain("view_event")

IdP(id, p) == <<Pair("id", Plain(id)), Pair("p", p)>>

Anchors ==
  { Anchor(Href("query", <<>>, IdP("1", VRR)), <<"A">>),
    Anchor(Href("query", <<>>, IdP("1", VRR)), <<"B">>),
    Anchor(Href("query", <<>>, IdP("2", VRR)), <<>>),
    Anchor(Href("query", <<>>, IdP("1", Word("view_race_result", "upper", FALSE))), <<"A">>),
    Anchor(Href("query", <<>>, IdP("2", Word("view_race_result", "lower", TRUE))), <<"A">>),
    Anchor(Href("query", <<>>, IdP("1", VE)), <<"A">>),
    Anchor(Href("query", <<>>, IdP("1", VE)), <<"B">>),
    Anchor(Href("query", <<>>, IdP("2", Word("view_event", "upper", TRUE))), <<>>),
    Anchor(Href("rootrel", <<"results">>, IdP("2", VE)), <<"A">>),
    Anchor(Href("rootrel", <<"results">>, IdP("2", VRR)), <<"B">>),
    Anchor(Href("rel", <<"results">>, IdP("1", VE)), <<"C">>),
    Anchor(Href("abs", <<"results">>, IdP("1", VRR)), <<"C">>),
    Anchor(Href("query", <<>>, IdP("", VRR)), <<"A">>),
    Anchor(Href("query", <<>>, <<Pair("p", NoValue), Pair("p", VE), Pair("id", Plain("2"))>>), <<"B">>),
    Anchor(Href("rootrel", <<"view_race_result">>, IdP("1", VE)), <<"A">>),
    Anchor(Href("bad", <<>>, <<>>), <<"A">>),
    Anchor(Href("empty", <<>>, <<>>), <<"A">>) }

AnchorDocs == SeqsUpTo(Anchors, MaxAnchors)

\* ------------------------------------------------------------ discovery
Label(text, prefix, id) ==
  IF text # <<>> THEN [prefix |-> "", id |-> NoValue, text |-> text]
  ELSE [prefix |-> prefix, id |-> id, text |-> <<>>]

Ref(id, name, url) == [id |-> id, name |-> name, url |-> url]

Ok(v) == [raised |-> FALSE, value |-> v, via |-> "anchors"]

Raised == [raised |-> TRUE, value |-> <<>>, via |-> "anchors"]

\* variant: a later anchor of the same id overwrites the entry (uniq[id] = e)
RECURSIVE Dedupe_LastWins(_, _, _)
Dedupe_LastWins(found, j, uniq) ==
  IF j > Len(found) THEN uniq
  ELSE IF \E k \in 1..Len(uniq) : uniq[k].id = found[j].id
       THEN Dedupe_LastWins(found, j + 1,
              [k \in 1..Len(uniq) |-> IF uniq[k].id = found[j].id THEN found[j] ELSE uniq[k]])
       ELSE Dedupe_LastWins(found, j + 1, Append(uniq, found[j]))

\* dict.setdefault over the found list, then list(uniq.values())
RECURSIVE Dedupe(_, _, _)
Dedupe(found, j, uniq) ==
  IF j > Len(found) THEN uniq
  ELSE IF \E k \in 1..Len(uniq) : uniq[k].id = found[j].id
       THEN Dedupe(found, j + 1, uniq)
       ELSE Dedupe(found, j + 1, Append(uniq, found[j]))

EventsResolve(h) == urljoin(EVENTS_URL, h)

EventsMatch(u) == Lower(Strip(QueryGet(u, "p", NoValue))) = VE

RECURSIVE EventsScan(_, _, _)
EventsScan(html, i, found) ==
  IF i > Len(html) THEN Ok(Dedupe(found, 1, <<>>))
  ELSE LET a == html[i] IN
    IF a.href.form = "empty" THEN EventsScan(html, i + 1, found)
    ELSE IF UrlRaises(a.href) THEN Raised
    ELSE LET href == EventsResolve(a.href)
             event_id == QueryGet(href, "id", NoValue)
         IN  IF ~EventsMatch(href) THEN EventsScan(html, i + 1, found)
             ELSE IF event_id = NoValue THEN EventsScan(html, i + 1, found)
             ELSE EventsScan(html, i + 1,
                    Append(found, Ref(event_id, Label(a.text, "event_", event_id), href)))

discover_events(html) == EventsScan(html, 1, <<>>)

\* variant: every href is joined against BASE/, the "?" case included
SessionsResolve_AlwaysBase(h) == urljoin(BASE_SLASH, h)

SessionsResolve(h) ==
  IF h.form = "query" THEN urljoin(RESULTS_ROOT, h) ELSE urljoin(BASE_SLASH, h)

SessionsFastReject(u) == ~HasVRRSubstring(u)

SessionsMatch(u) == Lower(Strip(QueryGet(u, "p", NoValue))) = VRR

RECURSIVE SessionsScan(_, _, _)
SessionsScan(html, i, sessions) ==
  IF i > Len(html) THEN Ok(Dedupe(sessions, 1, <<>>))
  ELSE LET a == html[i] IN
    IF a.href.form = "empty" THEN SessionsScan(html, i + 1, sessions)
    ELSE IF UrlRaises(a.href) THEN Raised
    ELSE LET href == SessionsResolve(a.href)
             rrid == QueryGet(href, "id", NoValue)
         IN  IF SessionsFastReject(href) THEN SessionsScan(html, i + 1, sessions)
             ELSE IF ~SessionsMatch(href) THEN SessionsScan(html, i + 1, sessions)
             ELSE IF rrid = NoValue THEN SessionsScan(html, i + 1, sessions)
             ELSE SessionsScan(html, i + 1,
                    Append(sessions, Ref(rrid, Label(a.text, "race_result_", rrid), href)))

discover_sessions(html) == SessionsScan(html, 1, <<>>)

\* ------------------------------------------------------------ text
\* A string is a sequence of one-character strings.
s_POS == <<"P", "O", "S">>

s_HASH == <<"#">>

s_NUM == <<"N", "U", "M">>

s_NO == <<"N", "O">>

s_NUMBER == <<"N", "U", "M", "B", "E", "R">>

s_RIDER == <<"R", "I", "D", "E", "R">>

s_NAME == <<"N", "A", "M", "E">>

s_BIKE == <<"B", "I", "K", "E">>

s_BEST_LAP == <<"B", "E", "S", "T", " ", "L", "A", "P">>

s_BEST == <<"B", "E", "S", "T">>

s_TIME == <<"T", "I", "M", "E">>

s_TOTAL_TIME == <<"T", "O", "T", "A", "L", " ", "T", "I", "M", "E">>

s_GAP == <<"G", "A", "P">>

s_INTERVAL == <<"I", "N", "T", "E", "R", "V", "A", "L">>

s_POINTS == <<"P", "O", "I", "N", "T", "S">>

s_PTS == <<"P", "T", "S">>

s_GENERATED_BY == <<"G", "E", "N", "E", "R", "A", "T", "E", "D", " ", "B", "Y">>

s_LIVE_SUPER == <<"L", "I", "V", "E", " ", "S", "U", "P", "E", "R">>


None == <<"None">>

IsSpace(c) == c = " "

IsDigit(c) == c \in {"0", "1", "2", "3", "4", "5", "6", "7", "8", "9"}

DigitVal(c) ==
  CASE c = "0" -> 0 [] c = "1" -> 1 [] c = "2" -> 2 [] c = "3" -> 3 [] c = "4" -> 4
    [] c = "5" -> 5 [] c = "6" -> 6 [] c = "7" -> 7 [] c = "8" -> 8 [] c = "9" -> 9

UpperChar(c) ==
  CASE c = "a" -> "A" [] c = "b" -> "B" [] c = "d" -> "D" [] c = "e" -> "E"
    [] c = "i" -> "I" [] c = "k" -> "K" [] c = "l" -> "L" [] c = "m" -> "M"
    [] c = "n" -> "N" [] c = "o" -> "O" [] c = "p" -> "P" [] c = "r" -> "R"
    [] c = "s" -> "S" [] c = "t" -> "T" [] c = "v" -> "V" [] c = "y" -> "Y"
    [] OTHER -> c

\* str.upper()
Upper(s) == [i \in 1..Len(s) |-> UpperChar(s[i])]

\* the regex character classes \d, \s and \S
CharIs(cls, c) ==
  CASE cls = "d" -> IsDigit(c)
    [] cls = "s" -> IsSpace(c)
    [] cls = "S" -> ~IsSpace(c)

\* number of leading characters of s, from position i on, in the class
RECURSIVE Span(_, _, _)
Span(s, i, cls) == IF i <= Len(s) /\ CharIs(cls, s[i]) THEN 1 + Span(s, i + 1, cls) ELSE 0

Tail0(s, n) == SubSeq(s, n + 1, Len(s))

\* str.split(): the maximal runs of non-whitespace characters
RECURSIVE Split(_)
Split(s) ==
  LET sp == Span(s, 1, "s")
      w  == Span(s, sp + 1, "S")
  IN  IF w = 0 THEN <<>>
      ELSE <<SubSeq(s, sp + 1, sp + w)>> \o Split(Tail0(s, sp + w))

\* " ".join(tokens)
RECURSIVE Join(_)
Join(toks) ==
  IF toks = <<>> THEN <<>>
  ELSE IF Len(toks) = 1 THEN toks[1]
  ELSE toks[1] \o <<" ">> \o Join(Tail(toks))

\* re.sub(r"\s+", " ", s).strip()
normalize_ws(s) == Join(Split(s))

\* int() of a string of digits
RECURSIVE IntOf(_)
IntOf(s) == IF s = <<>> THEN 0 ELSE 10 * IntOf(SubSeq(s, 1, Len(s) - 1)) + DigitVal(s[Len(s)])

\* re.fullmatch(r"\d+", s)
FullMatchDigits(s) == s # <<>> /\ \A i \in 1..Len(s) : IsDigit(s[i])

\* pat in s
Contains(s, pat) ==
  \E i \in 0..(Len(s) - Len(pat)) : SubSeq(s, i + 1, i + Len(pat)) = pat

\* s.startswith(pat)
StartsWith(s, pat) == Len(s) >= Len(pat) /\ SubSeq(s, 1, Len(pat)) = pat

\* ------------------------------------------------------------ pages
\* A table is, in document order: its <thead> rows (if it has a thead), the
\* rows that are inside its first <tbody> or, without one, its direct rows,
\* and the rows after those (a <tfoot>, a second <tbody>).
Table(has_thead, thead, has_tbody, rows, rest) ==
  [has_thead |-> has_thead, thead |-> thead, has_tbody |-> has_tbody,
   rows |-> rows, rest |-> rest]

\* every tr of the table outside its thead
BodyTrs(t) == t.rows \o t.rest

Page(tables, text) == [kind |-> "page", tables |-> tables, text |-> text]

RECURSIVE Flatten(_)
Flatten(rows) == IF rows = <<>> THEN <<>> ELSE rows[1] \o Flatten(Tail(rows))

NormCells(tr) == [i \in 1..Len(tr) |-> normalize_ws(tr[i])]

\* header: the cells of the thead, else the cells of the first tr
Header(t) ==
  IF t.has_thead THEN [i \in 1..Len(Flatten(t.thead)) |-> Upper(normalize_ws(Flatten(t.thead)[i]))]
  ELSE IF BodyTrs(t) # <<>>
       THEN [i \in 1..Len(BodyTrs(t)[1]) |-> Upper(normalize_ws(BodyTrs(t)[1][i]))]
  ELSE <<>>

InHeader(header, k) == \E i \in 1..Len(header) : header[i] = k

\* col_map = {h: i for i, h in enumerate(header)}: the last column of a name
ColMap(header, k) ==
  CHOOSE i \in 1..Len(header) : header[i] = k /\ \A j \in 1..Len(header) : header[j] = k => j <= i

RECURSIVE get_cell(_, _, _)
get_cell(header, cells, names) ==
  IF names = <<>> THEN None
  ELSE LET k == Upper(names[1]) IN
       IF InHeader(header, k) /\ ColMap(header, k) <= Len(cells)
       THEN LET v == cells[ColMap(header, k)] IN IF v # <<>> THEN v ELSE None
       ELSE get_cell(header, cells, Tail(names))

\* tbody = t.find("tbody") or t;  tbody.find_all("tr")
DataTrs(t) ==
  IF t.has_tbody THEN t.rows
  ELSE IF t.has_thead THEN t.thead \o BodyTrs(t)
  ELSE BodyTrs(t)

TableRow(header, cells) ==
  [ pos      |-> IntOf(get_cell(header, cells, <<s_POS>>)),
    number   |-> get_cell(header, cells, <<s_HASH, s_NUM, s_NO, s_NUMBER>>),
    rider    |-> get_cell(header, cells, <<s_RIDER, s_NAME>>),
    bike     |-> get_cell(header, cells, <<s_BIKE>>),
    best_lap |-> get_cell(header, cells, <<s_BEST_LAP, s_BEST>>),
    time     |-> get_cell(header, cells, <<s_TIME, s_TOTAL_TIME>>),
    gap      |-> get_cell(header, cells, <<s_GAP, s_INTERVAL>>),
    points   |-> get_cell(header, cells, <<s_POINTS, s_PTS>>),
    raw      |-> cells ]

PosAccepted(pos_raw) == pos_raw # None /\ FullMatchDigits(pos_raw)

RECURSIVE RowsScan(_, _, _, _)
RowsScan(header, trs, r, results) ==
  IF r > Len(trs) THEN results
  ELSE LET cells == NormCells(trs[r])
           pos_raw == get_cell(header, cells, <<s_POS>>)
       IN  IF cells = <<>> THEN RowsScan(header, trs, r + 1, results)
           ELSE IF ~PosAccepted(pos_raw) THEN RowsScan(header, trs, r + 1, results)
           ELSE RowsScan(header, trs, r + 1, Append(results, TableRow(header, cells)))

TableResults(t) == RowsScan(Header(t), DataTrs(t), 1, <<>>)

\* soup.get_text("\n", strip=True): one line per non-empty text node
TextNodes(page) ==
  LET TableNodes(t) == (IF t.has_thead THEN Flatten(t.thead) ELSE <<>>) \o Flatten(BodyTrs(t))
      F[i \in 0..Len(page.tables)] ==
        IF i = 0 THEN <<>> ELSE F[i - 1] \o TableNodes(page.tables[i])
  IN  F[Len(page.tables)] \o page.text

Lines(page) ==
  LET nodes == TextNodes(page)
      norm == [i \in 1..Len(nodes) |-> normalize_ws(nodes[i])]
  IN  SelectSeq(norm, LAMBDA ln : ln # <<>>)

IsHeaderLine(ln) ==
  LET up == Upper(ln)
  IN  /\ Contains(up, s_POS)
      /\ (Contains(up, s_RIDER) \/ Contains(up, s_NAME))
      /\ (Contains(up, s_HASH) \/ Contains(up, s_BIKE))

\* index of the header line, 0 for header_idx = None
HeaderIdx(lines) ==
  LET S == {i \in 1..Len(lines) : IsHeaderLine(lines[i])}
  IN  IF S = {} THEN 0 ELSE CHOOSE i \in S : \A j \in S : i <= j

IsFooterLine(ln) ==
  StartsWith(Upper(ln), s_GENERATED_BY) \/ StartsWith(Upper(ln), s_LIVE_SUPER)

\* re.match(r"^(\d+)\s+(\S+)\s+(.*)$", ln): the three groups, or <<>>
RowMatch(ln) ==
  LET d  == Span(ln, 1, "d")
      s1 == Span(ln, d + 1, "s")
      w  == Span(ln, d + s1 + 1, "S")
      s2 == Span(ln, d + s1 + w + 1, "s")
  IN  IF d >= 1 /\ s1 >= 1 /\ w >= 1 /\ s2 >= 1
      THEN <<SubSeq(ln, 1, d), SubSeq(ln, d + s1 + 1, d + s1 + w), Tail0(ln, d + s1 + w + s2)>>
      ELSE <<>>

TextRow(ln, m) ==
  LET tokens == Split(m[3])
  IN  [ pos         |-> IntOf(m[1]),
        number      |-> m[2],
        rider_guess |-> IF Len(tokens) >= 2 THEN Join(SubSeq(tokens, 1, 2)) ELSE None,
        line        |-> ln ]

\* variant: a footer line is skipped (continue) instead of ending the scan
RECURSIVE TextScan_FooterSkipped(_, _, _)
TextScan_FooterSkipped(lines, i, results) ==
  IF i > Len(lines) THEN results
  ELSE IF IsFooterLine(lines[i]) THEN TextScan_FooterSkipped(lines, i + 1, results)
  ELSE IF RowMatch(lines[i]) = <<>> THEN TextScan_FooterSkipped(lines, i + 1, results)
  ELSE TextScan_FooterSkipped(lines, i + 1, Append(results, TextRow(lines[i], RowMatch(lines[i]))))

RECURSIVE TextScan(_, _, _)
TextScan(lines, i, results) ==
  IF i > Len(lines) THEN results
  ELSE IF IsFooterLine(lines[i]) THEN results
  ELSE IF RowMatch(lines[i]) = <<>> THEN TextScan(lines, i + 1, results)
  ELSE TextScan(lines, i + 1, Append(results, TextRow(lines[i], RowMatch(lines[i]))))

parse_race_results_text_fallback(page) ==
  LET lines == Lines(page)
  IN  IF HeaderIdx(lines) = 0 THEN <<>>
      ELSE TextScan(lines, HeaderIdx(lines) + 1, <<>>)

Via(path, rows) == [raised |-> FALSE, value |-> rows, via |-> path]

\* variant: the first table with a POS header is returned even when empty
RECURSIVE TablesScan_FirstPosTable(_, _)
TablesScan_FirstPosTable(page, t) ==
  IF t > Len(page.tables) THEN Via("fallback", parse_race_results_text_fallback(page))
  ELSE IF ~InHeader(Header(page.tables[t]), s_POS) THEN TablesScan_FirstPosTable(page, t + 1)
  ELSE Via("table", TableResults(page.tables[t]))

RECURSIVE TablesScan(_, _)
TablesScan(page, t) ==
  IF t > Len(page.tables) THEN Via("fallback", parse_race_results_text_fallback(page))
  ELSE IF ~InHeader(Header(page.tables[t]), s_POS) THEN TablesScan(page, t + 1)
  ELSE IF TableResults(page.tables[t]) # <<>> THEN Via("table", TableResults(page.tables[t]))
  ELSE TablesScan(page, t + 1)

parse_race_results_table_first(page) == TablesScan(page, 1)

\* ------------------------------------------------------------ sample pages
x_pos == <<" ", "p", "o", "s", " ">>

x_1 == <<"1">>

x_0 == <<"0">>

x_2 == <<"2">>

x_21 == <<"2", "1">>

x_7 == <<"7">>

x_DNF == <<"D", "N", "F">>

x_Webb == <<"W", "e", "b", "b">>

x_empty == <<>>

l_header == <<"P", "O", "S", " ", "#", " ", "R", "I", "D", "E", "R", " ", "B", "I", "K", "E">>

l_header2 == <<"p", "o", "s", " ", " ", "n", "a", "m", "e", " ", "b", "i", "k", "e">>

l_row1 == <<"1", " ", "2", "1", " ", "C", "o", "o", "p", "e", "r", " ", "W", "e", "b", "b", " ", "Y", "a", "m", "a", "h", "a">>

l_row0 == <<"0", " ", "5", " ", "X">>

l_row2 == <<"2", " ", " ", "7", " ", "S", "o", "l", "o">>

l_noise == <<"D", "N", "F", " ", "3", " ", "Y", " ", "Z">>

l_short == <<"1", "2", " ", "3", "4">>

l_footer == <<"G", "e", "n", "e", "r", "a", "t", "e", "d", " ", "b", "y", " ", "X">>

l_footer2 == <<"L", "I", "V", "E", " ", "S", "U", "P", "E", "R", "X", " ", "1", " ", "2">>

l_blank == <<" ", " ">>

HeaderRows ==
  { <<s_POS, s_HASH, s_RIDER>>,
    <<s_NUM, s_POS, s_HASH>>,
    <<x_pos, s_NAME, s_RIDER>>,
    <<s_RIDER, s_BIKE>> }

DataRows ==
  { <<x_1, x_21, x_Webb>>,
    <<x_0, x_7, x_empty>>,
    <<x_DNF, x_2, x_Webb>>,
    <<x_21, x_2>>,
    <<>> }

BodyRows == {<<s_POS, s_HASH, s_RIDER>>, <<s_NUM, s_POS, s_HASH>>} \cup DataRows

Theads ==
  {<<FALSE, <<>>>>}
    \cup {<<TRUE, <<h>>>> : h \in HeaderRows}
    \cup {<<TRUE, <<h, <<x_21, x_2>>>>>> : h \in HeaderRows}

RichTables ==
  { Table(th[1], th[2], tb, rows, rest) :
      th \in Theads, tb \in BOOLEAN, rows \in SeqsUpTo(BodyRows, MaxRows),
      rest \in {<<>>, << <<x_2, x_7, x_Webb>> >>} }

H1 == <<s_POS, s_HASH, s_RIDER>>

SampleTables ==
  { Table(FALSE, <<>>, FALSE, <<>>, <<>>),
    Table(FALSE, <<>>, FALSE, << <<s_RIDER, s_BIKE>>, <<x_1, x_21, x_Webb>> >>, <<>>),
    Table(FALSE, <<>>, FALSE, << H1, <<x_DNF, x_2, x_Webb>> >>, <<>>),
    Table(TRUE, <<H1>>, TRUE, << <<x_1, x_21, x_Webb>> >>, << <<x_2, x_7, x_Webb>> >>),
    Table(FALSE, <<>>, TRUE, << H1, <<x_2, x_7, x_Webb>>, <<x_1, x_21, x_Webb>> >>, <<>>),
    Table(TRUE, <<H1>>, FALSE, << <<x_7, x_empty, x_empty>> >>, <<>>) }

SampleTexts ==
  {<<>>, <<l_header, l_row2, l_footer2, l_row1>>, <<l_blank, l_row2>>, <<l_header, l_row0>>}

TextNodeSet == {l_header2, l_row1, l_noise, l_short, l_footer}

Pages ==
  {Page(ts, tx) : ts \in SeqsUpTo(SampleTables, MaxTables), tx \in SampleTexts}
    \cup {Page(<<t>>, <<>>) : t \in RichTables}
    \cup {Page(<<>>, tx) : tx \in SeqsUpTo(TextNodeSet, MaxLines)}

\* ------------------------------------------------------------ actions
Init ==
  /\ input \in [kind : {"anchors"}, doc : AnchorDocs] \cup Pages
  /\ pc = "ready"
  /\ ret = Ok(<<>>)

DiscoverEvents ==
  /\ pc = "ready" /\ input.kind = "anchors"
  /\ ret' = discover_events(input.doc)
  /\ pc' = "discover_events"
  /\ UNCHANGED input

DiscoverSessions ==
  /\ pc = "ready" /\ input.kind = "anchors"
  /\ ret' = discover_sessions(input.doc)
  /\ pc' = "discover_sessions"
  /\ UNCHANGED input

ParseTableFirst ==
  /\ pc = "ready" /\ input.kind = "page"
  /\ ret' = parse_race_results_table_first(input)
  /\ pc' = "parse_table_first"
  /\ UNCHANGED input

ParseTextFallback ==
  /\ pc = "ready" /\ input.kind = "page"
  /\ ret' = Via("fallback", parse_race_results_text_fallback(input))
  /\ pc' = "parse_text_fallback"
  /\ UNCHANGED input

Next == DiscoverEvents \/ DiscoverSessions \/ ParseTableFirst \/ ParseTextFallback

Spec == Init /\ [][Next]_vars

\* ------------------------------------------------------------ properties
Done(op) == pc = op /\ ~ret.raised

Usable(a) == a.href.form \notin {"empty", "bad"}

EventQualifies(a) ==
  /\ Usable(a)
  /\ EventsMatch(EventsResolve(a.href))
  /\ QueryGet(EventsResolve(a.href), "id", NoValue) # NoValue

SessionQualifies(a) ==
  /\ Usable(a)
  /\ ~SessionsFastReject(SessionsResolve(a.href))
  /\ SessionsMatch(SessionsResolve(a.href))
  /\ QueryGet(SessionsResolve(a.href), "id", NoValue) # NoValue

AnchorId(a) == QueryGet(urljoin(BASE_SLASH, a.href), "id", NoValue)

\* index of the first anchor of doc that qualifies and carries the id
FirstWithId(doc, id, Q(_)) ==
  LET S == {i \in 1..Len(doc) : Q(doc[i]) /\ AnchorId(doc[i]) = id}
  IN  IF S = {} THEN 0 ELSE CHOOSE i \in S : \A j \in S : i <= j

FirstWins(doc, out, Q(_), R(_), prefix) ==
  /\ \A m, n \in 1..Len(out) : m # n => out[m].id # out[n].id
  /\ \A m \in 1..Len(out) :
       LET f == FirstWithId(doc, out[m].id, Q)
       IN  /\ f # 0
           /\ out[m].name = Label(doc[f].text, prefix, out[m].id)
           /\ out[m].url = R(doc[f].href)
  /\ \A m, n \in 1..Len(out) :
       m < n => FirstWithId(doc, out[m].id, Q) < FirstWithId(doc, out[n].id, Q)

\* C3: discover_events and discover_sessions return no two entries with the
\* same id; the entry kept for an id is the first qualifying anchor with that
\* id in document order (its label and url), and the entries are in the order
\* in which their ids first occur.
C3_DedupeFirstWins ==
  /\ Done("discover_events") =>
       FirstWins(input.doc, ret.value, EventQualifies, EventsResolve, "event_")
  /\ Done("discover_sessions") =>
       FirstWins(input.doc, ret.value, SessionQualifies, SessionsResolve, "race_result_")

\* two qualifying anchors of one id with different labels, a later distinct id
C3_Witness ==
  /\ Done("discover_events")
  /\ Len(input.doc) = 3 /\ Len(ret.value) = 2
  /\ EventQualifies(input.doc[1]) /\ EventQualifies(input.doc[2])
  /\ AnchorId(input.doc[1]) = AnchorId(input.doc[2])
  /\ input.doc[1].text # input.doc[2].text
  /\ ret.value[1].name.text = input.doc[1].text

\* C4: in discover_sessions an href beginning with "?" is resolved to the
\* results listing root followed by that query string: the url of the entry
\* kept for such an anchor is RESULTS_ROOT with exactly the anchor's own query.
C4_QueryOnlyOnResultsRoot ==
  Done("discover_sessions") =>
    \A m \in 1..Len(ret.value) :
      LET a == input.doc[FirstWithId(input.doc, ret.value[m].id, SessionQualifies)]
      IN  a.href.form = "query" =>
            ret.value[m].url = [RESULTS_ROOT EXCEPT !.query = a.href.query]

C4_Witness ==
  /\ Done("discover_sessions")
  /\ Len(ret.value) >= 1
  /\ input.doc[1].href.form = "query"
  /\ SessionQualifies(input.doc[1])
  /\ ret.value[1].url = Url(<<"results">>, IdP("1", VRR))

\* C6: discover_sessions returns an entry for the id of every anchor whose
\* resolved URL has p equal to "view_race_result" (case-insensitive, trimmed)
\* and a non-empty id, and none for any other anchor; the substring
\* pre-filter never removes an anchor that satisfies this predicate.
SessionPredicate(a) ==
  /\ Usable(a)
  /\ Lower(Strip(QueryGet(SessionsResolve(a.href), "p", NoValue))) = VRR
  /\ QueryGet(SessionsResolve(a.href), "id", NoValue) # NoValue

C6_PredicateDecides ==
  Done("discover_sessions") =>
    {ret.value[m].id : m \in 1..Len(ret.value)}
      = {AnchorId(input.doc[i]) : i \in {k \in 1..Len(input.doc) : SessionPredicate(input.doc[k])}}

\* C7: an unparsable URL is never propagated as an error: extract_query_param
\* gives absent for it, and both discoverers skip such an anchor and return
\* the entries of all the other anchors.
WithoutBad(doc) == SelectSeq(doc, LAMBDA a : ~UrlRaises(a.href))

C7_MalformedUrlSkipped ==
  /\ input.kind = "anchors" =>
       \A i \in 1..Len(input.doc) :
         UrlRaises(input.doc[i].href) => extract_query_param(input.doc[i].href, "id") = NoValue
  /\ pc = "discover_events" => ret = discover_events(WithoutBad(input.doc))
  /\ pc = "discover_sessions" => ret = discover_sessions(WithoutBad(input.doc))

\* C8: in discover_events a query-only href is resolved against the results
\* listing root, so the url of its entry is RESULTS_ROOT with that query.
C8_EventsQueryOnlyOnResultsRoot ==
  Done("discover_events") =>
    \A m \in 1..Len(ret.value) :
      LET a == input.doc[FirstWithId(input.doc, ret.value[m].id, EventQualifies)]
      IN  a.href.form = "query" =>
            ret.value[m].url = [RESULTS_ROOT EXCEPT !.query = a.href.query]

\* ---- results pages
Raws(rows) == [m \in 1..Len(rows) |-> rows[m].raw]

\* a tr whose cell under the last POS column of the header is all digits
ValidTr(header, tr) ==
  LET cells == NormCells(tr)
      S == {i \in 1..Len(header) : header[i] = s_POS}
  IN  /\ cells # <<>>
      /\ S # {}
      /\ \E c \in S : /\ \A j \in S : j <= c
                      /\ c <= Len(cells)
                      /\ FullMatchDigits(cells[c])

ValidCells(t, trs) ==
  LET kept == SelectSeq(trs, LAMBDA tr : ValidTr(Header(t), tr))
  IN  [m \in 1..Len(kept) |-> NormCells(kept[m])]

\* tables with a POS header that yield at least one valid row
Yielding(page) ==
  {i \in 1..Len(page.tables) :
     /\ InHeader(Header(page.tables[i]), s_POS)
     /\ ValidCells(page.tables[i], DataTrs(page.tables[i])) # <<>>}

FirstYielding(page) == CHOOSE i \in Yielding(page) : \A j \in Yielding(page) : i <= j

ParsedPage == pc \in {"parse_table_first", "parse_text_fallback"}

FromTable == pc = "parse_table_first" /\ ret.via = "table"

\* C1: every row returned by the table path and by the text fallback has an
\* integer position >= 1 (rows without a parseable position are dropped).
C1_PositionAtLeastOne ==
  ParsedPage => \A m \in 1..Len(ret.value) : ret.value[m].pos >= 1

\* C2: parse_race_results_table_first returns exactly the rows, in document
\* order, of the first table with a POS header that yields a valid row; a POS
\* table with no valid row does not end the scan, later tables are not
\* consulted, and the text fallback's output is returned iff no table yields.
C2_FirstYieldingTableWins ==
  pc = "parse_table_first" =>
    IF Yielding(input) = {}
    THEN ret.via = "fallback" /\ ret.value = parse_race_results_text_fallback(input)
    ELSE /\ ret.via = "table"
         /\ Raws(ret.value) =
              ValidCells(input.tables[FirstYielding(input)],
                         DataTrs(input.tables[FirstYielding(input)]))

\* a POS table without valid rows, then one with rows out of position order,
\* then another table that would yield rows too
C2_Witness ==
  /\ FromTable
  /\ Len(input.tables) = 3
  /\ InHeader(Header(input.tables[1]), s_POS)
  /\ Yielding(input) = {2, 3}
  /\ Len(ret.value) = 2
  /\ ret.value[1].pos = 2 /\ ret.value[2].pos = 1

\* C5: parse_race_results_text_fallback returns, in line order, exactly one row
\* for each line strictly after the first header line and strictly before the
\* first later footer line that has the shape <unsigned integer> <token>
\* <rest>; other lines are skipped, nothing comes from the footer or after it,
\* and the result is empty without a header line.
Shaped(ln) == Len(Split(ln)) >= 3 /\ FullMatchDigits(Split(ln)[1])

FooterIdx(lines, h) ==
  LET S == {i \in (h + 1)..Len(lines) : IsFooterLine(lines[i])}
  IN  IF S = {} THEN Len(lines) + 1 ELSE CHOOSE i \in S : \A j \in S : i <= j

ExpectedLines(lines) ==
  LET S == {i \in 1..Len(lines) : IsHeaderLine(lines[i])}
      h == IF S = {} THEN Len(lines) + 1 ELSE CHOOSE i \in S : \A j \in S : i <= j
      f == FooterIdx(lines, h)
      idx == [i \in 1..Len(lines) |-> i]
      kept == SelectSeq(idx, LAMBDA i : h < i /\ i < f /\ Shaped(lines[i]))
  IN  [m \in 1..Len(kept) |-> lines[kept[m]]]

C5_FallbackRows ==
  pc = "parse_text_fallback" =>
    /\ [m \in 1..Len(ret.value) |-> ret.value[m].line] = ExpectedLines(Lines(input))
    /\ \A m \in 1..Len(ret.value) :
         /\ ret.value[m].pos = IntOf(Split(ret.value[m].line)[1])
         /\ ret.value[m].number = Split(ret.value[m].line)[2]

\* header, a line of another shape, a row, the footer, a row after the footer
C5_Witness ==
  /\ pc = "parse_text_fallback"
  /\ Len(Lines(input)) = 5
  /\ IsHeaderLine(Lines(input)[1])
  /\ ~Shaped(Lines(input)[2]) /\ ~IsFooterLine(Lines(input)[2])
  /\ Shaped(Lines(input)[3])
  /\ IsFooterLine(Lines(input)[4])
  /\ Shaped(Lines(input)[5])
  /\ Len(ret.value) = 1
  /\ ret.value[1].line = Lines(input)[3]

\* C9: when the accepted table has a thead, no row inside the thead is
\* returned as a data row, with or without a tbody: the result rows are the
\* valid rows among those the scan visits outside the header section.
C9_TheadRowsExcluded ==
  FromTable =>
    LET t == input.tables[FirstYielding(input)]
    IN  t.has_thead =>
          Raws(ret.value) = ValidCells(t, IF t.has_tbody THEN t.rows ELSE BodyTrs(t))

\* C10: each named field of a table row is decided by the column of the first
\* alias present in the header: that column's cell text when non-empty, absent
\* otherwise (cell empty or row too short); a later alias is never used when
\* an earlier one is in the header, and no field is the empty string.
Aliases ==
  [ number   |-> <<s_HASH, s_NUM, s_NO, s_NUMBER>>,
    rider    |-> <<s_RIDER, s_NAME>>,
    bike     |-> <<s_BIKE>>,
    best_lap |-> <<s_BEST_LAP, s_BEST>>,
    time     |-> <<s_TIME, s_TOTAL_TIME>>,
    gap      |-> <<s_GAP, s_INTERVAL>>,
    points   |-> <<s_POINTS, s_PTS>> ]

FirstAliasValue(header, cells, names) ==
  LET S == {j \in 1..Len(names) : InHeader(header, names[j])}
  IN  IF S = {} THEN None
      ELSE LET c == ColMap(header, names[CHOOSE j \in S : \A k \in S : j <= k])
           IN  IF c <= Len(cells) /\ cells[c] # <<>> THEN cells[c] ELSE None

C10_FirstAliasDecides ==
  FromTable =>
    LET header == Header(input.tables[FirstYielding(input)])
    IN  \A m \in 1..Len(ret.value) : \A f \in DOMAIN Aliases :
          /\ ret.value[m][f] = FirstAliasValue(header, ret.value[m].raw, Aliases[f])
          /\ ret.value[m][f] # <<>>
====
